---- MODULE Spec2Model ----
(***************************************************************************)
(* Social-graph engine of the Cybernauts backend: the User model           *)
(* (models/User.ts) and the UserService (services/UserService.ts).         *)
(*                                                                         *)
(* The store is the MongoDB "users" collection, keyed by the user's id.    *)
(* popularityScore is kept in hundredths (300 stands for 3.0): the code    *)
(* rounds the score to two decimals, and every score it computes is a      *)
(* multiple of 0.5.                                                        *)
(*                                                                         *)
(* Spec  : requests run one at a time, each handler is one step.           *)
(* SpecN : Spec with any username in a create or an update (renames).      *)
(* SpecF : Spec on a store that may reject a save of a link or unlink.     *)
(* SpecR : Spec with the reads (getGraphData, getUserStats, ...).           *)
(* SpecT : getGraphData on stores with scores around the threshold of 5.   *)
(* SpecH : the requests that write hobbies, with blank and repeated names.  *)
(* SpecL : Spec and a client that links a pair and unlinks it at once.     *)
(* SpecC : two requests overlap; a step is the code between two awaits.    *)
(* SpecU : the AppProvider of the frontend (contexts/AppContext.tsx).      *)
(***************************************************************************)
EXTENDS Integers, Sequences, FiniteSets, TLC

\* ---------------------------------------------------------------- bounds
MaxUsers == 3      \* how many ids uuidv4 hands out in a run
MaxHobbies == 2    \* longest hobbies array in a request body
MaxShown == 2      \* longest users list the page holds
MaxPast == 2       \* most entries of undoRedoState.past

\* ---------------------------------------------------------------- inputs
Ids == 1..MaxUsers
Usernames == {"alice", "bob", "carol"}
UsernameList == <<"alice", "bob", "carol">>
Hobbies == {"coding"}
Procs == {"p1", "p2"}

\* hobbies arrays a request may carry: Joi demands at least one entry
\* (validation.ts .min(1)) and does not demand distinct entries
HobbyLists == UNION {[1..n -> Hobbies] : n \in 1..MaxHobbies}

\* an absent field of a partial update
Absent == "absent"
NoId == 0

\* ---------------------------------------------------------------- outcomes
Ok == "ok"
UserNotFound == "User not found"
FriendNotFound == "Friend not found"
AlreadyLinked == "Users are already friends"
SelfLink == "User cannot be friends with themselves"
NotLinked == "Users are not friends"
DuplicateName == "Username already exists"
HasFriends == "Cannot delete user with existing friendships"
HobbyNotFound == "Hobby not found"
FailedToAdd == "Failed to add friendship"
FailedToRemove == "Failed to remove friendship"
FailedToUpdate == "Failed to update user"

VARIABLES
    users,      \* the collection: id -> [username, hobbies, friends, popularityScore]
    nextId,     \* the next id uuidv4 returns
    lastOp,     \* Spec: the last completed request, [op, res]
    pc,         \* SpecC: where each overlapping request stands
    local       \* SpecC: the request's arguments and in-memory documents

vars == <<users, nextId, lastOp, pc, local>>

\* ---------------------------------------------------------------- arrays
Range(s) == {s[i] : i \in 1..Len(s)}

\* Array.prototype.includes
includes(s, x) == \E i \in 1..Len(s) : s[i] = x

\* Array.prototype.filter(e => e !== x)
RECURSIVE filterOut(_, _)
filterOut(s, x) ==
    IF s = <<>> THEN <<>>
    ELSE IF Head(s) = x THEN filterOut(Tail(s), x)
    ELSE <<Head(s)>> \o filterOut(Tail(s), x)

\* [...new Set(s)]: first occurrences, in order
RECURSIVE uniq(_)
uniq(s) ==
    IF s = <<>> THEN <<>>
    ELSE <<Head(s)>> \o uniq(filterOut(Tail(s), Head(s)))

\* variant: the pre('save') middleware is missing
preSave_asGiven(hobbies) == hobbies

\* UserSchema.pre('save'): drop blank hobbies, then deduplicate
preSave(hobbies) == uniq(SelectSeq(hobbies, LAMBDA h : h # ""))

\* ---------------------------------------------------------------- score
\* [...userHobbies].filter(hobby => friendHobbies.has(hobby)).length
sharedHobbies(userHobbies, friendHobbies) ==
    Cardinality(Range(userHobbies) \cap Range(friendHobbies))

\* friends.forEach(friend => sharedHobbiesScore += shared * 0.5), in hundredths
RECURSIVE sharedHobbiesScore(_, _, _)
sharedHobbiesScore(userHobbies, found, store) ==
    IF found = {} THEN 0
    ELSE LET f == CHOOSE x \in found : TRUE
         IN  50 * sharedHobbies(userHobbies, store[f].hobbies)
             + sharedHobbiesScore(userHobbies, found \ {f}, store)

\* find({ id: { $in: this.friends } }): the stored users named in the array
findFriends(friends, store) == {u \in DOMAIN store : includes(friends, u)}

\* the value calculatePopularityScore assigns to this.popularityScore
totalScore(this, store) ==
    100 * Len(this.friends)
    + sharedHobbiesScore(this.hobbies, findFriends(this.friends, store), store)

\* The stored popularityScore of `this` after calculatePopularityScore():
\* with no friends the method returns 0 before it assigns or saves anything.
calculatePopularityScore(this, store) ==
    IF Len(this.friends) = 0
    THEN this.popularityScore
    ELSE totalScore(this, store)

\* ---------------------------------------------------------------- requests, one at a time
\* the request that just completed and its outcome
Done(op, res) == lastOp' = [op |-> op, res |-> res]

Idle == \A p \in Procs : pc[p] = "idle"

\* variant: the findOne({ username }) lookup finds nobody
usernameTaken_noLookup(name, exceptId) == FALSE

\* findOne({ username }) / findOne({ username, id: { $ne: id } }) finds a user
usernameTaken(name, exceptId) ==
    \E u \in DOMAIN users : u # exceptId /\ users[u].username = name

\* variant: the id is the number of stored users plus one, not a new uuid
createUser_countId(username, hobbies) ==
    /\ Idle
    /\ nextId <= MaxUsers
    /\ IF usernameTaken(username, NoId)
       THEN /\ Done("create", DuplicateName)
            /\ UNCHANGED <<users, nextId>>
       ELSE LET id == Cardinality(DOMAIN users) + 1
                user == [username        |-> username,
                         hobbies         |-> preSave(hobbies),
                         friends         |-> <<>>,
                         popularityScore |-> 0]
                saved == (id :> user) @@ users
            IN  /\ users' = [saved EXCEPT ![id].popularityScore =
                                 calculatePopularityScore(saved[id], saved)]
                /\ nextId' = nextId + 1
                /\ Done("create", Ok)
    /\ UNCHANGED <<pc, local>>

\* UserService.createUser
createUser(username, hobbies) ==
    /\ Idle
    /\ nextId <= MaxUsers
    /\ IF usernameTaken(username, NoId)
       THEN /\ Done("create", DuplicateName)
            /\ UNCHANGED <<users, nextId>>
       ELSE LET user == [username        |-> username,
                         hobbies         |-> preSave(hobbies),
                         friends         |-> <<>>,
                         popularityScore |-> 0]
                saved == (nextId :> user) @@ users
            IN  /\ users' = [saved EXCEPT ![nextId].popularityScore =
                                 calculatePopularityScore(saved[nextId], saved)]
                /\ nextId' = nextId + 1
                /\ Done("create", Ok)
    /\ UNCHANGED <<pc, local>>

\* a field the sparse updateData carries
has(updateData, field) == field \in DOMAIN updateData

\* variant: calculatePopularityScore() is not called after the save
updateUser_noRecompute(id, updateData) ==
    /\ Idle
    /\ IF id \notin DOMAIN users
       THEN /\ Done("update", UserNotFound)
            /\ UNCHANGED users
       ELSE IF /\ has(updateData, "username")
               /\ updateData.username # users[id].username
               /\ usernameTaken(updateData.username, id)
       THEN /\ Done("update", DuplicateName)
            /\ UNCHANGED users
       ELSE LET user == [users[id] EXCEPT
                            !.username = IF has(updateData, "username")
                                         THEN updateData.username ELSE @,
                            !.hobbies  = IF has(updateData, "hobbies")
                                         THEN preSave(updateData.hobbies)
                                         ELSE preSave(@)]
            IN  /\ users' = [users EXCEPT ![id] = user]
                /\ Done("update", Ok)
    /\ UNCHANGED <<nextId, pc, local>>

\* variant: calculatePopularityScore() is called after every update
updateUser_alwaysRecompute(id, updateData) ==
    /\ Idle
    /\ IF id \notin DOMAIN users
       THEN /\ Done("update", UserNotFound)
            /\ UNCHANGED users
       ELSE IF /\ has(updateData, "username")
               /\ updateData.username # users[id].username
               /\ usernameTaken(updateData.username, id)
       THEN /\ Done("update", DuplicateName)
            /\ UNCHANGED users
       ELSE LET user == [users[id] EXCEPT
                            !.username = IF has(updateData, "username")
                                         THEN updateData.username ELSE @,
                            !.hobbies  = IF has(updateData, "hobbies")
                                         THEN preSave(updateData.hobbies)
                                         ELSE preSave(@)]
                saved == [users EXCEPT ![id] = user]
            IN  /\ users' = [saved EXCEPT ![id].popularityScore =
                                 calculatePopularityScore(user, saved)]
                /\ Done("update", Ok)
    /\ UNCHANGED <<nextId, pc, local>>

\* UserService.updateUser; updateData carries any of username, age, hobbies
\* (age is not stored in the model: no branch of the engine reads it)
updateUser(id, updateData) ==
    /\ Idle
    /\ IF id \notin DOMAIN users
       THEN /\ Done("update", UserNotFound)
            /\ UNCHANGED users
       ELSE IF /\ has(updateData, "username")
               /\ updateData.username # users[id].username
               /\ usernameTaken(updateData.username, id)
       THEN /\ Done("update", DuplicateName)
            /\ UNCHANGED users
       ELSE LET user == [users[id] EXCEPT
                            !.username = IF has(updateData, "username")
                                         THEN updateData.username ELSE @,
                            !.hobbies  = IF has(updateData, "hobbies")
                                         THEN preSave(updateData.hobbies)
                                         ELSE preSave(@)]
                saved == [users EXCEPT ![id] = user]
            IN  /\ users' = IF has(updateData, "hobbies")
                            THEN [saved EXCEPT ![id].popularityScore =
                                      calculatePopularityScore(user, saved)]
                            ELSE saved
                /\ Done("update", Ok)
    /\ UNCHANGED <<nextId, pc, local>>

\* variant: the friends check is left out
canDeleteUser_noFriendsCheck(userId) == userId \in DOMAIN users

\* User.canDeleteUser
canDeleteUser(userId) ==
    IF userId \notin DOMAIN users THEN FALSE
    ELSE Len(users[userId].friends) = 0

\* UserService.deleteUser
deleteUser(id) ==
    /\ Idle
    /\ IF id \notin DOMAIN users
       THEN /\ Done("delete", UserNotFound)
            /\ UNCHANGED users
       ELSE IF ~canDeleteUser(id)
       THEN /\ Done("delete", HasFriends)
            /\ UNCHANGED users
       ELSE /\ users' = [u \in DOMAIN users \ {id} |-> users[u]]
            /\ Done("delete", Ok)
    /\ UNCHANGED <<nextId, pc, local>>

\* variant: only this.friends is pushed and saved
addFriend_oneSided(thisId, friendId) ==
    IF includes(users[thisId].friends, friendId)
    THEN /\ Done("link", AlreadyLinked)
         /\ UNCHANGED users
    ELSE IF friendId = thisId
    THEN /\ Done("link", SelfLink)
         /\ UNCHANGED users
    ELSE IF friendId \notin DOMAIN users
    THEN /\ Done("link", FriendNotFound)
         /\ UNCHANGED users
    ELSE LET saved == [users EXCEPT ![thisId].friends = Append(@, friendId)]
         IN  /\ users' = [saved EXCEPT
                             ![thisId].popularityScore =
                                 calculatePopularityScore(saved[thisId], saved),
                             ![friendId].popularityScore =
                                 calculatePopularityScore(saved[friendId], saved)]
             /\ Done("link", Ok)

\* variant: only this.calculatePopularityScore() is called after the saves
addFriend_thisOnly(thisId, friendId) ==
    IF includes(users[thisId].friends, friendId)
    THEN /\ Done("link", AlreadyLinked)
         /\ UNCHANGED users
    ELSE IF friendId = thisId
    THEN /\ Done("link", SelfLink)
         /\ UNCHANGED users
    ELSE IF friendId \notin DOMAIN users
    THEN /\ Done("link", FriendNotFound)
         /\ UNCHANGED users
    ELSE LET saved == [users EXCEPT
                          ![thisId].friends   = Append(@, friendId),
                          ![friendId].friends = Append(@, thisId)]
         IN  /\ users' = [saved EXCEPT
                             ![thisId].popularityScore =
                                 calculatePopularityScore(saved[thisId], saved)]
             /\ Done("link", Ok)

\* variant: the includes() check is left out
addFriend_noIncludes(thisId, friendId) ==
    IF friendId = thisId
    THEN /\ Done("link", SelfLink)
         /\ UNCHANGED users
    ELSE IF friendId \notin DOMAIN users
    THEN /\ Done("link", FriendNotFound)
         /\ UNCHANGED users
    ELSE LET saved == [users EXCEPT
                          ![thisId].friends   = Append(@, friendId),
                          ![friendId].friends = Append(@, thisId)]
         IN  /\ users' = [saved EXCEPT
                             ![thisId].popularityScore =
                                 calculatePopularityScore(saved[thisId], saved),
                             ![friendId].popularityScore =
                                 calculatePopularityScore(saved[friendId], saved)]
             /\ Done("link", Ok)

\* UserSchema.methods.addFriend, on the document of thisId
addFriend(thisId, friendId) ==
    IF includes(users[thisId].friends, friendId)
    THEN /\ Done("link", AlreadyLinked)
         /\ UNCHANGED users
    ELSE IF friendId = thisId
    THEN /\ Done("link", SelfLink)
         /\ UNCHANGED users
    ELSE IF friendId \notin DOMAIN users
    THEN /\ Done("link", FriendNotFound)
         /\ UNCHANGED users
    ELSE LET saved == [users EXCEPT
                          ![thisId].friends   = Append(@, friendId),
                          ![friendId].friends = Append(@, thisId)]
         IN  /\ users' = [saved EXCEPT
                             ![thisId].popularityScore =
                                 calculatePopularityScore(saved[thisId], saved),
                             ![friendId].popularityScore =
                                 calculatePopularityScore(saved[friendId], saved)]
             /\ Done("link", Ok)

\* variant: neither the service nor the model compares the two ids
addFriendship_noSelfCheck(userId, friendId) ==
    /\ Idle
    /\ IF userId \notin DOMAIN users
       THEN /\ Done("link", UserNotFound)
            /\ UNCHANGED users
       ELSE IF includes(users[userId].friends, friendId)
       THEN /\ Done("link", AlreadyLinked)
            /\ UNCHANGED users
       ELSE IF friendId \notin DOMAIN users
       THEN /\ Done("link", FriendNotFound)
            /\ UNCHANGED users
       ELSE LET pushed == [users EXCEPT ![userId].friends = Append(@, friendId)]
                saved  == [pushed EXCEPT ![friendId].friends = Append(@, userId)]
            IN  /\ users' = [saved EXCEPT
                                ![userId].popularityScore =
                                    calculatePopularityScore(saved[userId], saved),
                                ![friendId].popularityScore =
                                    calculatePopularityScore(saved[friendId], saved)]
                /\ Done("link", Ok)
    /\ UNCHANGED <<nextId, pc, local>>

\* UserService.addFriendship
addFriendship(userId, friendId) ==
    /\ Idle
    /\ IF userId \notin DOMAIN users
       THEN /\ Done("link", UserNotFound)
            /\ UNCHANGED users
       ELSE IF userId = friendId
       THEN /\ Done("link", SelfLink)
            /\ UNCHANGED users
       ELSE addFriend(userId, friendId)
    /\ UNCHANGED <<nextId, pc, local>>

\* variant: only this.friends is filtered and saved
removeFriend_oneSided(thisId, friendId) ==
    IF ~includes(users[thisId].friends, friendId)
    THEN /\ Done("unlink", NotLinked)
         /\ UNCHANGED users
    ELSE IF friendId \notin DOMAIN users
    THEN /\ Done("unlink", FriendNotFound)
         /\ UNCHANGED users
    ELSE LET saved == [users EXCEPT ![thisId].friends = filterOut(@, friendId)]
         IN  /\ users' = [saved EXCEPT
                             ![thisId].popularityScore =
                                 calculatePopularityScore(saved[thisId], saved),
                             ![friendId].popularityScore =
                                 calculatePopularityScore(saved[friendId], saved)]
             /\ Done("unlink", Ok)

\* UserSchema.methods.removeFriend, on the document of thisId
removeFriend(thisId, friendId) ==
    IF ~includes(users[thisId].friends, friendId)
    THEN /\ Done("unlink", NotLinked)
         /\ UNCHANGED users
    ELSE IF friendId \notin DOMAIN users
    THEN /\ Done("unlink", FriendNotFound)
         /\ UNCHANGED users
    ELSE LET saved == [users EXCEPT
                          ![thisId].friends   = filterOut(@, friendId),
                          ![friendId].friends = filterOut(@, thisId)]
         IN  /\ users' = [saved EXCEPT
                             ![thisId].popularityScore =
                                 calculatePopularityScore(saved[thisId], saved),
                             ![friendId].popularityScore =
                                 calculatePopularityScore(saved[friendId], saved)]
             /\ Done("unlink", Ok)

\* UserService.removeFriendship
removeFriendship(userId, friendId) ==
    /\ Idle
    /\ IF userId \notin DOMAIN users
       THEN /\ Done("unlink", UserNotFound)
            /\ UNCHANGED users
       ELSE removeFriend(userId, friendId)
    /\ UNCHANGED <<nextId, pc, local>>

\* ---------------------------------------------------------------- rejected saves
\* The two saves of Promise.all([this.save(), friend.save()]) are two writes
\* on the collection, outside any session or transaction.  When the store
\* rejects one of them Promise.all rejects: addFriend / removeFriend throw
\* before the scores are recomputed, and the service rethrows the error as
\* "Failed to ...".  `persisted` holds the saves the store did apply.
Persisted == SUBSET {"this", "friend"} \ {{"this", "friend"}}

\* UserService.addFriendship: every check passes, a save is rejected
addFriendship_saveRejected(userId, friendId, persisted) ==
    /\ Idle
    /\ userId \in DOMAIN users
    /\ userId # friendId
    /\ ~includes(users[userId].friends, friendId)
    /\ friendId \in DOMAIN users
    /\ users' = [users EXCEPT
                    ![userId].friends   = IF "this" \in persisted
                                          THEN Append(@, friendId) ELSE @,
                    ![friendId].friends = IF "friend" \in persisted
                                          THEN Append(@, userId) ELSE @]
    /\ Done("link", FailedToAdd)
    /\ UNCHANGED <<nextId, pc, local>>

\* UserService.removeFriendship: every check passes, a save is rejected
removeFriendship_saveRejected(userId, friendId, persisted) ==
    /\ Idle
    /\ userId \in DOMAIN users
    /\ includes(users[userId].friends, friendId)
    /\ friendId \in DOMAIN users
    /\ users' = [users EXCEPT
                    ![userId].friends   = IF "this" \in persisted
                                          THEN filterOut(@, friendId) ELSE @,
                    ![friendId].friends = IF "friend" \in persisted
                                          THEN filterOut(@, userId) ELSE @]
    /\ Done("unlink", FailedToRemove)
    /\ UNCHANGED <<nextId, pc, local>>

\* UserService.removeHobby
removeHobby(userId, hobby) ==
    /\ Idle
    /\ IF userId \notin DOMAIN users
       THEN /\ Done("removeHobby", UserNotFound)
            /\ UNCHANGED users
       ELSE IF ~includes(users[userId].hobbies, hobby)
       THEN /\ Done("removeHobby", HobbyNotFound)
            /\ UNCHANGED users
       ELSE LET saved == [users EXCEPT ![userId].hobbies =
                              preSave(filterOut(@, hobby))]
            IN  /\ users' = [saved EXCEPT ![userId].popularityScore =
                                 calculatePopularityScore(saved[userId], saved)]
                /\ Done("removeHobby", Ok)
    /\ UNCHANGED <<nextId, pc, local>>

\* ---------------------------------------------------------------- reads
\* find({}): the stored ids in the collection's natural order, the order in
\* which the users were created
RECURSIVE find(_)
find(ids) ==
    IF ids = {} THEN <<>>
    ELSE LET first == CHOOSE u \in ids : \A v \in ids : u <= v
         IN  <<first>> \o find(ids \ {first})

\* variant: a score of exactly 5 counts as high
nodeType_atLeast(popularityScore) ==
    IF popularityScore >= 500 THEN "HighScoreNode" ELSE "LowScoreNode"

\* type: user.popularityScore > 5 ? 'HighScoreNode' : 'LowScoreNode'
nodeType(popularityScore) ==
    IF popularityScore > 500 THEN "HighScoreNode" ELSE "LowScoreNode"

\* variant: the two ids are joined as they come
pairKey_unsorted(a, b) == <<a, b>>

\* [user.id, friendId].sort().join('-'): the two ids in ascending order (the
\* ids are uuids of one length, so the joined string names the pair)
pairKey(a, b) == IF a <= b THEN <<a, b>> ELSE <<b, a>>

\* users.forEach(user => user.friends.forEach(friendId => ...)): the
\* (user, friend) pairs in the order the two loops visit them
RECURSIVE friendPairs(_, _)
friendPairs(store, ids) ==
    IF ids = <<>> THEN <<>>
    ELSE LET user == Head(ids)
         IN  [i \in 1..Len(store[user].friends) |-> <<user, store[user].friends[i]>>]
             \o friendPairs(store, Tail(ids))

\* the loop body: an edge is pushed unless its pairKey was processed
RECURSIVE pushEdges(_, _, _)
pushEdges(pairs, processedPairs, edges) ==
    IF pairs = <<>> THEN edges
    ELSE LET source == Head(pairs)[1]
             target == Head(pairs)[2]
         IN  IF pairKey(source, target) \in processedPairs
             THEN pushEdges(Tail(pairs), processedPairs, edges)
             ELSE pushEdges(Tail(pairs),
                            processedPairs \cup {pairKey(source, target)},
                            Append(edges, [source |-> source, target |-> target]))

\* UserSchema.statics.getGraphData on the store it reads (the node's label
\* and its randomly jittered position are left out)
getGraphData(store) ==
    LET found == find(DOMAIN store)
    IN  [nodes |-> [i \in 1..Len(found) |->
                       [id   |-> found[i],
                        type |-> nodeType(store[found[i]].popularityScore)]],
         edges |-> pushEdges(friendPairs(store, found), {}, <<>>)]

\* users.reduce((sum, user) => sum + user.friends.length, 0)
RECURSIVE sumFriends(_, _)
sumFriends(store, ids) ==
    IF ids = <<>> THEN 0
    ELSE Len(store[Head(ids)].friends) + sumFriends(store, Tail(ids))

\* users.reduce((sum, user) => sum + user.popularityScore, 0)
RECURSIVE sumScores(_, _)
sumScores(store, ids) ==
    IF ids = <<>> THEN 0
    ELSE store[Head(ids)].popularityScore + sumScores(store, Tail(ids))

\* find({}).sort({ popularityScore: -1 }): highest stored score first, equal
\* scores in natural order
RECURSIVE sortByScore(_, _)
sortByScore(store, ids) ==
    IF ids = {} THEN <<>>
    ELSE LET top == CHOOSE u \in ids :
                        \A v \in ids :
                            \/ store[u].popularityScore > store[v].popularityScore
                            \/ /\ store[u].popularityScore = store[v].popularityScore
                               /\ u <= v
         IN  <<top>> \o sortByScore(store, ids \ {top})

\* .limit(5)
TopLimit == 5

\* variant: the sum of the friends arrays is not halved
totalFriendships_undivided(store) ==
    100 * sumFriends(store, find(DOMAIN store))

\* sumFriends / 2 ("divide by 2 for bidirectional"), in hundredths
totalFriendships(store) ==
    50 * sumFriends(store, find(DOMAIN store))

\* the mean of the stored scores, rounded to two decimals by Math.round
averagePopularityScore(store) ==
    LET found == find(DOMAIN store)
        sum == sumScores(store, found)
    IN  IF Len(found) > 0
        THEN (2 * sum + Len(found)) \div (2 * Len(found))
        ELSE 0

topUsers(store) ==
    LET sorted == sortByScore(store, DOMAIN store)
    IN  [i \in 1..(IF Len(sorted) < TopLimit THEN Len(sorted) ELSE TopLimit) |->
            [id              |-> sorted[i],
             username        |-> store[sorted[i]].username,
             popularityScore |-> store[sorted[i]].popularityScore]]

\* UserService.getUserStats: countDocuments() reads `counted`, the first
\* find({}) reads `found`, the sorted find({}) reads `ranked`
getUserStats(counted, found, ranked) ==
    [totalUsers             |-> Cardinality(DOMAIN counted),
     totalFriendships       |-> totalFriendships(found),
     averagePopularityScore |-> averagePopularityScore(found),
     topUsers               |-> topUsers(ranked)]

\* GET /api/graph, with requests one at a time
UserService_getGraphData ==
    /\ Idle
    /\ Done("graph", Ok)
    /\ UNCHANGED <<users, nextId, pc, local>>

\* variant: the stats request recomputes and saves every score it reads
UserService_getUserStats_refresh ==
    /\ Idle
    /\ users' = [u \in DOMAIN users |->
                    [users[u] EXCEPT !.popularityScore = totalScore(users[u], users)]]
    /\ Done("stats", Ok)
    /\ UNCHANGED <<nextId, pc, local>>

\* GET /api/users/stats, with requests one at a time: the three reads see
\* the same store
UserService_getUserStats ==
    /\ Idle
    /\ Done("stats", Ok)
    /\ UNCHANGED <<users, nextId, pc, local>>

\* UserService.getAllUsers: find({}).sort({ createdAt: -1 })
UserService_getAllUsers ==
    /\ Idle
    /\ Done("getAllUsers", Ok)
    /\ UNCHANGED <<users, nextId, pc, local>>

\* UserService.getUserById: findOne({ id }), null when nobody has the id
UserService_getUserById(id) ==
    /\ Idle
    /\ Done("getUserById", IF id \in DOMAIN users THEN Ok ELSE UserNotFound)
    /\ UNCHANGED <<users, nextId, pc, local>>

\* UserService.searchUsers: find({ $or: [username, hobbies] }).limit(20)
UserService_searchUsers ==
    /\ Idle
    /\ Done("searchUsers", Ok)
    /\ UNCHANGED <<users, nextId, pc, local>>

\* UserService.getAllHobbies: find({}).select('hobbies'), flatMap, Set, sort
UserService_getAllHobbies ==
    /\ Idle
    /\ Done("getAllHobbies", Ok)
    /\ UNCHANGED <<users, nextId, pc, local>>

\* ---------------------------------------------------------------- overlapping requests (SpecC)
\* A request is a chain of awaits.  Between two awaits it works on the mongoose
\* documents it loaded (local[p].this, local[p].friend); every await is one
\* query or one write on the collection, and the other request may run between
\* any two of them.  Each process serves one request.
NoDoc == [id |-> NoId, username |-> "", hobbies |-> <<>>, friends |-> <<>>,
          popularityScore |-> 0]

\* no stats computed yet
NoStats == [totalUsers |-> 0, totalFriendships |-> 0,
            averagePopularityScore |-> 0, topUsers |-> <<>>]

NoLocal == [op |-> "none", a |-> NoId, b |-> NoId, username |-> Absent,
            hobbies |-> <<>>, hasHobbies |-> FALSE,
            this |-> NoDoc, friend |-> NoDoc,
            unsaved |-> {}, toFind |-> {}, toSave |-> {}, stored |-> {},
            counted |-> <<>>, found |-> <<>>, stats |-> NoStats,
            before |-> <<>>,
            res |-> "none"]

\* findOne({ id }): the document as stored at this moment
findOne(id) ==
    [id |-> id, username |-> users[id].username, hobbies |-> users[id].hobbies,
     friends |-> users[id].friends, popularityScore |-> users[id].popularityScore]

\* the request of p ends with outcome res
Reply(p, res) ==
    /\ pc' = [pc EXCEPT ![p] = "done"]
    /\ local' = [local EXCEPT ![p].res = res]

Begin(p, op, a, b) == [NoLocal EXCEPT !.op = op, !.a = a, !.b = b]

\* UserService.createUser: await User.findOne({ username })
createUser_findOne(p, username, hobbies) ==
    /\ pc[p] = "idle"
    /\ IF usernameTaken(username, NoId)
       THEN /\ pc' = [pc EXCEPT ![p] = "done"]
            /\ local' = [local EXCEPT ![p] =
                   [Begin(p, "create", NoId, NoId) EXCEPT !.res = DuplicateName]]
       ELSE /\ pc' = [pc EXCEPT ![p] = "create_save"]
            /\ local' = [local EXCEPT ![p] =
                   [Begin(p, "create", NoId, NoId) EXCEPT
                       !.username = username, !.hobbies = hobbies]]
    /\ UNCHANGED <<users, nextId, lastOp>>

\* UserService.createUser: await user.save(), then calculatePopularityScore(),
\* which returns at once for the empty friends array
createUser_save(p) ==
    /\ pc[p] = "create_save"
    /\ nextId <= MaxUsers
    /\ users' = (nextId :> [username        |-> local[p].username,
                            hobbies         |-> preSave(local[p].hobbies),
                            friends         |-> <<>>,
                            popularityScore |-> 0]) @@ users
    /\ nextId' = nextId + 1
    /\ pc' = [pc EXCEPT ![p] = "done"]
    /\ local' = [local EXCEPT ![p].a = nextId, ![p].res = Ok]
    /\ UNCHANGED lastOp

\* UserService.updateUser: await User.findOne({ id })
updateUser_findOne(p, id, updateData) ==
    /\ pc[p] = "idle"
    /\ IF id \notin DOMAIN users
       THEN /\ pc' = [pc EXCEPT ![p] = "done"]
            /\ local' = [local EXCEPT ![p] =
                   [Begin(p, "update", id, NoId) EXCEPT !.res = UserNotFound]]
       ELSE /\ pc' = [pc EXCEPT ![p] =
                   IF /\ has(updateData, "username")
                      /\ updateData.username # users[id].username
                   THEN "update_checkName" ELSE "update_save"]
            /\ local' = [local EXCEPT ![p] =
                   [Begin(p, "update", id, NoId) EXCEPT
                       !.this = findOne(id),
                       !.username = IF has(updateData, "username")
                                    THEN updateData.username ELSE Absent,
                       !.hasHobbies = has(updateData, "hobbies"),
                       !.hobbies = IF has(updateData, "hobbies")
                                   THEN updateData.hobbies ELSE <<>>]]
    /\ UNCHANGED <<users, nextId, lastOp>>

\* UserService.updateUser: await User.findOne({ username, id: { $ne: id } })
updateUser_checkName(p) ==
    /\ pc[p] = "update_checkName"
    /\ IF usernameTaken(local[p].username, local[p].a)
       THEN Reply(p, DuplicateName)
       ELSE /\ pc' = [pc EXCEPT ![p] = "update_save"]
            /\ UNCHANGED local
    /\ UNCHANGED <<users, nextId, lastOp>>

\* UserService.updateUser: Object.assign(user, updateData); await user.save().
\* save() writes the paths the request assigned.  With hobbies in the request
\* calculatePopularityScore() follows; it returns at once when the loaded
\* friends array is empty.
updateUser_save(p) ==
    /\ pc[p] = "update_save"
    /\ local[p].a \in DOMAIN users
    /\ LET id == local[p].a
           this == [local[p].this EXCEPT
                       !.username = IF local[p].username = Absent
                                    THEN @ ELSE local[p].username,
                       !.hobbies = IF local[p].hasHobbies
                                   THEN preSave(local[p].hobbies) ELSE preSave(@)]
           recompute == local[p].hasHobbies /\ Len(this.friends) # 0
       IN  /\ users' = [users EXCEPT
                           ![id].username = IF local[p].username = Absent
                                            THEN @ ELSE this.username,
                           ![id].hobbies = IF local[p].hasHobbies
                                           THEN this.hobbies ELSE @]
           /\ pc' = [pc EXCEPT ![p] = IF recompute THEN "calc" ELSE "done"]
           /\ local' = [local EXCEPT
                           ![p].this = this,
                           ![p].toFind = IF recompute THEN {"this"} ELSE {},
                           ![p].res = IF recompute THEN @ ELSE Ok]
    /\ UNCHANGED <<nextId, lastOp>>

\* updateUser: await user.save() after the user has been deleted
updateUser_save_notFound(p) ==
    /\ pc[p] = "update_save"
    /\ local[p].a \notin DOMAIN users
    /\ Reply(p, FailedToUpdate)
    /\ UNCHANGED <<users, nextId, lastOp>>

\* UserService.deleteUser: await User.findOne({ id })
deleteUser_findOne(p, id) ==
    /\ pc[p] = "idle"
    /\ IF id \notin DOMAIN users
       THEN /\ pc' = [pc EXCEPT ![p] = "done"]
            /\ local' = [local EXCEPT ![p] =
                   [Begin(p, "delete", id, NoId) EXCEPT !.res = UserNotFound]]
       ELSE /\ pc' = [pc EXCEPT ![p] = "delete_canDelete"]
            /\ local' = [local EXCEPT ![p] = Begin(p, "delete", id, NoId)]
    /\ UNCHANGED <<users, nextId, lastOp>>

\* UserService.deleteUser: await User.canDeleteUser(id)
deleteUser_canDelete(p) ==
    /\ pc[p] = "delete_canDelete"
    /\ IF canDeleteUser(local[p].a)
       THEN /\ pc' = [pc EXCEPT ![p] = "delete_deleteOne"]
            /\ UNCHANGED local
       ELSE Reply(p, HasFriends)
    /\ UNCHANGED <<users, nextId, lastOp>>

\* UserService.deleteUser: await User.deleteOne({ id })
deleteUser_deleteOne(p) ==
    /\ pc[p] = "delete_deleteOne"
    /\ users' = [u \in DOMAIN users \ {local[p].a} |-> users[u]]
    /\ Reply(p, Ok)
    /\ UNCHANGED <<nextId, lastOp>>

\* UserService.addFriendship: await User.findOne({ id: userId }), the self
\* check, and the includes() check that opens addFriend
addFriendship_findOne(p, userId, friendId) ==
    /\ pc[p] = "idle"
    /\ IF userId \notin DOMAIN users
       THEN /\ pc' = [pc EXCEPT ![p] = "done"]
            /\ local' = [local EXCEPT ![p] =
                   [Begin(p, "link", userId, friendId) EXCEPT !.res = UserNotFound]]
       ELSE IF userId = friendId
       THEN /\ pc' = [pc EXCEPT ![p] = "done"]
            /\ local' = [local EXCEPT ![p] =
                   [Begin(p, "link", userId, friendId) EXCEPT !.res = SelfLink]]
       ELSE IF includes(users[userId].friends, friendId)
       THEN /\ pc' = [pc EXCEPT ![p] = "done"]
            /\ local' = [local EXCEPT ![p] =
                   [Begin(p, "link", userId, friendId) EXCEPT !.res = AlreadyLinked]]
       ELSE /\ pc' = [pc EXCEPT ![p] = "link_findFriend"]
            /\ local' = [local EXCEPT ![p] =
                   [Begin(p, "link", userId, friendId) EXCEPT !.this = findOne(userId)]]
    /\ UNCHANGED <<users, nextId, lastOp>>

\* addFriend: await findOne({ id: friendId }); then both push() calls
addFriend_findOne(p) ==
    /\ pc[p] = "link_findFriend"
    /\ IF local[p].b \notin DOMAIN users
       THEN Reply(p, FriendNotFound)
       ELSE /\ pc' = [pc EXCEPT ![p] = "save"]
            /\ local' = [local EXCEPT
                   ![p].this.friends = Append(@, local[p].b),
                   ![p].friend = [findOne(local[p].b) EXCEPT
                                     !.friends = Append(@, local[p].a)],
                   ![p].unsaved = {"this", "friend"}]
    /\ UNCHANGED <<users, nextId, lastOp>>

\* UserService.removeFriendship: await User.findOne({ id: userId }), and the
\* includes() check that opens removeFriend
removeFriendship_findOne(p, userId, friendId) ==
    /\ pc[p] = "idle"
    /\ IF userId \notin DOMAIN users
       THEN /\ pc' = [pc EXCEPT ![p] = "done"]
            /\ local' = [local EXCEPT ![p] =
                   [Begin(p, "unlink", userId, friendId) EXCEPT !.res = UserNotFound]]
       ELSE IF ~includes(users[userId].friends, friendId)
       THEN /\ pc' = [pc EXCEPT ![p] = "done"]
            /\ local' = [local EXCEPT ![p] =
                   [Begin(p, "unlink", userId, friendId) EXCEPT !.res = NotLinked]]
       ELSE /\ pc' = [pc EXCEPT ![p] = "unlink_findFriend"]
            /\ local' = [local EXCEPT ![p] =
                   [Begin(p, "unlink", userId, friendId) EXCEPT !.this = findOne(userId)]]
    /\ UNCHANGED <<users, nextId, lastOp>>

\* removeFriend: await findOne({ id: friendId }); then both filter() calls
removeFriend_findOne(p) ==
    /\ pc[p] = "unlink_findFriend"
    /\ IF local[p].b \notin DOMAIN users
       THEN Reply(p, FriendNotFound)
       ELSE /\ pc' = [pc EXCEPT ![p] = "save"]
            /\ local' = [local EXCEPT
                   ![p].this.friends = filterOut(@, local[p].b),
                   ![p].friend = [findOne(local[p].b) EXCEPT
                                     !.friends = filterOut(@, local[p].a)],
                   ![p].unsaved = {"this", "friend"}]
    /\ UNCHANGED <<users, nextId, lastOp>>

\* the document "this" or "friend" of p
docOf(p, w) == IF w = "this" THEN local[p].this ELSE local[p].friend

\* One of the two saves of Promise.all([this.save(), friend.save()]); the
\* collection applies them in either order.  A pushed element is written as
\* a push onto the stored array, an assigned array replaces the stored one.
\* After the second save both calculatePopularityScore() calls start; each
\* returns at once when its document has no friends.
\* When the other save of the pair has been rejected the request has failed
\* already and no calculatePopularityScore() follows.
save(p, w) ==
    /\ pc[p] = "save"
    /\ w \in local[p].unsaved
    /\ docOf(p, w).id \in DOMAIN users
    /\ LET doc == docOf(p, w)
           other == IF w = "this" THEN local[p].b ELSE local[p].a
           left == local[p].unsaved \ {w}
           toFind == IF local[p].res # "none" THEN {}
                     ELSE {x \in {"this", "friend"} : Len(docOf(p, x).friends) # 0}
       IN  /\ users' = [users EXCEPT ![doc.id].friends =
                           IF local[p].op = "link" THEN Append(@, other)
                           ELSE doc.friends]
           /\ pc' = [pc EXCEPT ![p] =
                  IF left # {} THEN "save"
                  ELSE IF toFind # {} THEN "calc" ELSE "done"]
           /\ local' = [local EXCEPT
                  ![p].unsaved = left,
                  ![p].toFind = IF left = {} THEN toFind ELSE {},
                  ![p].res = IF left = {} /\ toFind = {} /\ @ = "none" THEN Ok ELSE @]
    /\ UNCHANGED <<nextId, lastOp>>

\* the error the service throws when a save of the request op is rejected
failed(op) ==
    IF op = "link" THEN FailedToAdd
    ELSE IF op = "unlink" THEN FailedToRemove
    ELSE FailedToUpdate

\* save() of a loaded document that has been deleted meanwhile: the update
\* matches no document, nothing is written, and the save is rejected
\* (DocumentNotFoundError); the service rethrows it as "Failed to ...".
\* Promise.all rejects at once, the other save it started still runs.
save_notFound(p, w) ==
    /\ pc[p] = "save"
    /\ w \in local[p].unsaved
    /\ docOf(p, w).id \notin DOMAIN users
    /\ LET left == local[p].unsaved \ {w}
       IN  /\ pc' = [pc EXCEPT ![p] = IF left # {} THEN "save" ELSE "done"]
           /\ local' = [local EXCEPT
                  ![p].unsaved = left,
                  ![p].res = failed(local[p].op)]
    /\ UNCHANGED <<users, nextId, lastOp>>

\* calculatePopularityScore: await find({ id: { $in: this.friends } }), then
\* the score is computed from the loaded friends array and assigned
calculatePopularityScore_find(p, w) ==
    /\ pc[p] = "calc"
    /\ w \in local[p].toFind
    /\ LET score == totalScore(docOf(p, w), users)
       IN  local' = [local EXCEPT
               ![p].this.popularityScore = IF w = "this" THEN score ELSE @,
               ![p].friend.popularityScore = IF w = "friend" THEN score ELSE @,
               ![p].toFind = @ \ {w},
               ![p].toSave = @ \cup {w}]
    /\ UNCHANGED <<users, nextId, lastOp, pc>>

\* calculatePopularityScore: await this.save() of the assigned score
calculatePopularityScore_save(p, w) ==
    /\ pc[p] = "calc"
    /\ w \in local[p].toSave
    /\ docOf(p, w).id \in DOMAIN users
    /\ LET doc == docOf(p, w)
           finished == local[p].toFind = {} /\ local[p].toSave = {w}
       IN  /\ users' = [users EXCEPT ![doc.id].popularityScore = doc.popularityScore]
           /\ pc' = [pc EXCEPT ![p] = IF finished THEN "done" ELSE "calc"]
           /\ local' = [local EXCEPT
                  ![p].toSave = @ \ {w},
                  ![p].stored = @ \cup {w},
                  ![p].res = IF finished /\ @ = "none" THEN Ok ELSE @]
    /\ UNCHANGED <<nextId, lastOp>>

\* calculatePopularityScore: await this.save() of a document that has been
\* deleted meanwhile; the other calculatePopularityScore() still runs
calculatePopularityScore_save_notFound(p, w) ==
    /\ pc[p] = "calc"
    /\ w \in local[p].toSave
    /\ docOf(p, w).id \notin DOMAIN users
    /\ LET finished == local[p].toFind = {} /\ local[p].toSave = {w}
       IN  /\ pc' = [pc EXCEPT ![p] = IF finished THEN "done" ELSE "calc"]
           /\ local' = [local EXCEPT
                  ![p].toSave = @ \ {w},
                  ![p].res = failed(local[p].op)]
    /\ UNCHANGED <<users, nextId, lastOp>>

\* UserService.getUserStats: await User.countDocuments()
getUserStats_countDocuments(p) ==
    /\ pc[p] = "idle"
    /\ pc' = [pc EXCEPT ![p] = "stats_find"]
    /\ local' = [local EXCEPT ![p] =
           [Begin(p, "stats", NoId, NoId) EXCEPT !.counted = users]]
    /\ UNCHANGED <<users, nextId, lastOp>>

\* UserService.getUserStats: await User.find({}).select('friends popularityScore')
getUserStats_find(p) ==
    /\ pc[p] = "stats_find"
    /\ pc' = [pc EXCEPT ![p] = "stats_top"]
    /\ local' = [local EXCEPT ![p].found = users]
    /\ UNCHANGED <<users, nextId, lastOp>>

\* UserService.getUserStats: await User.find({}).sort(..).limit(5), and the
\* object the request returns
getUserStats_findTop(p) ==
    /\ pc[p] = "stats_top"
    /\ pc' = [pc EXCEPT ![p] = "done"]
    /\ local' = [local EXCEPT
           ![p].stats = getUserStats(local[p].counted, local[p].found, users),
           ![p].res = Ok]
    /\ UNCHANGED <<users, nextId, lastOp>>

\* the request bodies of PUT /api/users/:id (IUserUpdate: every field optional)
UpdateData(names) ==
    [username : names] \cup [hobbies : HobbyLists] \cup [age : {30}]
    \cup [username : names, hobbies : HobbyLists]

\* Usernames the requests of Spec carry.  The graph and the scores never read
\* a username, so Spec keeps the stored names in one order: a create sends a
\* name already in use or the first unused name of UsernameList, an update
\* sends a name already in use.
NamesInUse == {users[u].username : u \in DOMAIN users}

FirstUnused ==
    LET free == {i \in 1..Len(UsernameList) : UsernameList[i] \notin NamesInUse}
    IN  {UsernameList[i] : i \in {j \in free : \A k \in free : j <= k}}

\* ---------------------------------------------------------------- Spec
Init ==
    /\ users = <<>>
    /\ nextId = 1
    /\ lastOp = [op |-> "none", res |-> Ok]
    /\ pc = [p \in Procs |-> "idle"]
    /\ local = [p \in Procs |-> NoLocal]

Next ==
    \/ \E n \in NamesInUse \cup FirstUnused, h \in HobbyLists : createUser(n, h)
    \/ \E id \in Ids, d \in UpdateData(NamesInUse) : updateUser(id, d)
    \/ \E id \in Ids : deleteUser(id)
    \/ \E a \in Ids, b \in Ids : addFriendship(a, b)
    \/ \E a \in Ids, b \in Ids : removeFriendship(a, b)
    \/ \E id \in Ids, h \in Hobbies : removeHobby(id, h)

Spec == Init /\ [][Next]_vars

\* ---------------------------------------------------------------- SpecN
\* The requests that read or write a username or decide whether one may be
\* deleted, with any username of Usernames in a create or an update, so that
\* a user is renamed to a name nobody holds.  removeHobby reads and writes no
\* username and stays with Spec.
NextN ==
    \/ \E n \in Usernames, h \in HobbyLists : createUser(n, h)
    \/ \E id \in Ids, d \in UpdateData(Usernames) : updateUser(id, d)
    \/ \E id \in Ids : deleteUser(id)
    \/ \E a \in Ids, b \in Ids : addFriendship(a, b)
    \/ \E a \in Ids, b \in Ids : removeFriendship(a, b)

SpecN == Init /\ [][NextN]_vars

\* ---------------------------------------------------------------- SpecF
\* The requests of Spec on a store that may reject a save of a link or unlink.
\* SpecF follows the store up to its first rejected save.
\* no save has been rejected so far
Intact == lastOp.res \notin {FailedToAdd, FailedToRemove}

NextF ==
    \/ Intact /\ \E n \in NamesInUse \cup FirstUnused, h \in HobbyLists : createUser(n, h)
    \/ Intact /\ \E id \in Ids, d \in UpdateData(NamesInUse) : updateUser(id, d)
    \/ Intact /\ \E id \in Ids : deleteUser(id)
    \/ Intact /\ \E a \in Ids, b \in Ids : addFriendship(a, b)
    \/ Intact /\ \E a \in Ids, b \in Ids : removeFriendship(a, b)
    \/ Intact /\ \E id \in Ids, h \in Hobbies : removeHobby(id, h)
    \/ Intact /\ \E a \in Ids, b \in Ids, w \in Persisted :
                     addFriendship_saveRejected(a, b, w)
    \/ Intact /\ \E a \in Ids, b \in Ids, w \in Persisted :
                     removeFriendship_saveRejected(a, b, w)

SpecF == Init /\ [][NextF]_vars

\* ---------------------------------------------------------------- SpecR
\* The requests of Spec together with the six reads.
NextR ==
    \/ Next
    \/ UserService_getGraphData
    \/ UserService_getUserStats
    \/ UserService_getAllUsers
    \/ \E id \in Ids : UserService_getUserById(id)
    \/ UserService_searchUsers
    \/ UserService_getAllHobbies

SpecR == Init /\ [][NextR]_vars

\* ---------------------------------------------------------------- SpecT
\* getGraphData on stores whose scores lie around the threshold of 5.  Spec
\* cannot store such a score with MaxUsers users and one hobby name; the
\* engine stores them for users who share seven hobbies or more with a friend,
\* and keeps them stored after the friend is unlinked.
Scores == {0, 450, 500, 550, 600}

Named == {u \in Ids : u <= Len(UsernameList)}

ScoreStores ==
    {[u \in Named |-> [username        |-> UsernameList[u],
                       hobbies         |-> <<"coding">>,
                       friends         |-> <<>>,
                       popularityScore |-> score[u]]] : score \in [Named -> Scores]}

InitT ==
    /\ users \in ScoreStores
    /\ nextId = Cardinality(Named) + 1
    /\ lastOp = [op |-> "none", res |-> Ok]
    /\ pc = [p \in Procs |-> "idle"]
    /\ local = [p \in Procs |-> NoLocal]

NextT == UserService_getGraphData

SpecT == InitT /\ [][NextT]_vars

\* ---------------------------------------------------------------- SpecH
\* The requests that write a hobbies array, with arrays of two hobby names
\* and the blank string ("" stands for any string whose trim() is empty) as
\* a caller of the service may pass them.
HobbyInputs == {"coding", "gaming", ""}

HobbyInputLists == UNION {[1..n -> HobbyInputs] : n \in 1..MaxHobbies}

NextH ==
    \/ \E n \in NamesInUse \cup FirstUnused, h \in HobbyInputLists : createUser(n, h)
    \/ \E id \in Ids, d \in [hobbies : HobbyInputLists] \cup [age : {30}] :
           updateUser(id, d)
    \/ \E id \in Ids, h \in HobbyInputs : removeHobby(id, h)

SpecH == Init /\ [][NextH]_vars

\* ---------------------------------------------------------------- SpecL
\* The requests of Spec, and one client that sends a link and, as soon as it
\* has succeeded, the unlink of the same pair.  The client keeps the store it
\* saw before the link.
Client == "p1"

\* UserService.addFriendship(a, b), answered with success
linkThenUnlink_link(a, b) ==
    /\ Idle
    /\ a \in DOMAIN users
    /\ a # b
    /\ addFriend(a, b)
    /\ lastOp'.res = Ok
    /\ pc' = [pc EXCEPT ![Client] = "linked"]
    /\ local' = [local EXCEPT ![Client] =
           [Begin(Client, "link", a, b) EXCEPT !.before = users, !.res = Ok]]
    /\ UNCHANGED nextId

\* UserService.removeFriendship(a, b), the next request the service handles
linkThenUnlink_unlink ==
    /\ pc[Client] = "linked"
    /\ local[Client].a \in DOMAIN users
    /\ removeFriend(local[Client].a, local[Client].b)
    /\ pc' = [pc EXCEPT ![Client] = "done"]
    /\ local' = [local EXCEPT ![Client].op = "unlink", ![Client].res = lastOp'.res]
    /\ UNCHANGED nextId

NextL ==
    \/ Next
    \/ \E a \in Ids, b \in Ids : linkThenUnlink_link(a, b)
    \/ linkThenUnlink_unlink

SpecL == Init /\ [][NextL]_vars

\* ---------------------------------------------------------------- SpecU
\* AppContext.tsx.  The page holds two useReducer states: state, which the
\* components read, and undoRedoState.  In SpecU both are fields of local,
\* beside what the user of the page remembers: step (how far the sequence
\* saveState, one action, undo, redo has come), atSave (state at the
\* saveState) and afterAction (state when undo was pressed).  The server is
\* its answers: the payloads of the actions.  A user of the page is its id
\* and its friends; hobbies, loading, error, searchQuery and filterHobbies
\* are copied by every case below and left out.
ShownIds == 1..MaxShown

null == [id |-> NoId, friends |-> <<>>]

\* const initialState
initialState ==
    [users |-> <<>>, graphData |-> [nodes |-> <<>>, edges |-> <<>>],
     selectedUser |-> null]

\* const undoRedoInitialState
undoRedoInitialState == [past |-> <<>>, present |-> initialState, future |-> <<>>]

\* const appReducer
appReducer(state, action) ==
    CASE action.type = "SET_USERS" ->
             [state EXCEPT !.users = action.payload]
      [] action.type = "SET_GRAPH_DATA" ->
             [state EXCEPT !.graphData = action.payload]
      [] action.type = "SET_SELECTED_USER" ->
             [state EXCEPT !.selectedUser = action.payload]
      [] action.type = "ADD_USER" ->
             [state EXCEPT !.users = Append(@, action.payload)]
      [] action.type = "UPDATE_USER" ->
             [state EXCEPT
                 !.users = [i \in 1..Len(@) |->
                               IF @[i].id = action.payload.id
                               THEN action.payload ELSE @[i]],
                 !.selectedUser = IF @.id = action.payload.id
                                  THEN action.payload ELSE @]
      [] action.type = "DELETE_USER" ->
             LET kept(user) == user.id # action.payload
             IN  [state EXCEPT
                     !.users = SelectSeq(@, kept),
                     !.selectedUser = IF @.id = action.payload THEN null ELSE @]
      [] action.type = "ADD_FRIENDSHIP" ->
             [state EXCEPT
                 !.users = [i \in 1..Len(@) |->
                     IF @[i].id = action.payload.userId
                     THEN [@[i] EXCEPT !.friends = Append(@, action.payload.friendId)]
                     ELSE IF @[i].id = action.payload.friendId
                     THEN [@[i] EXCEPT !.friends = Append(@, action.payload.userId)]
                     ELSE @[i]]]
      [] action.type = "REMOVE_FRIENDSHIP" ->
             [state EXCEPT
                 !.users = [i \in 1..Len(@) |->
                     IF @[i].id = action.payload.userId
                     THEN [@[i] EXCEPT !.friends = filterOut(@, action.payload.friendId)]
                     ELSE IF @[i].id = action.payload.friendId
                     THEN [@[i] EXCEPT !.friends = filterOut(@, action.payload.userId)]
                     ELSE @[i]]]
      [] OTHER -> state

\* const undoRedoReducer
undoRedoReducer(state, action) ==
    CASE action.type = "SAVE_STATE" ->
             [past    |-> Append(state.past, state.present),
              present |-> state.present,
              future  |-> <<>>]
      [] action.type = "UNDO" ->
             IF Len(state.past) = 0 THEN state
             ELSE [past    |-> SubSeq(state.past, 1, Len(state.past) - 1),
                   present |-> state.past[Len(state.past)],
                   future  |-> <<state.present>> \o state.future]
      [] action.type = "REDO" ->
             IF Len(state.future) = 0 THEN state
             ELSE [past    |-> Append(state.past, state.present),
                   present |-> Head(state.future),
                   future  |-> Tail(state.future)]
      [] OTHER -> [state EXCEPT !.present = appReducer(state.present, action)]

\* the users the server may answer with
Shown ==
    {[id |-> i, friends |-> f] :
        i \in ShownIds, f \in {<<>>} \cup {<<j>> : j \in ShownIds}}

\* the answers of GET /api/users: every id once, in ascending order
UserLists ==
    {<<>>} \cup {<<u>> : u \in Shown}
    \cup {<<u, v>> : u \in {x \in Shown : x.id = 1}, v \in {x \in Shown : x.id = 2}}

\* answers of GET /api/graph
Graphs ==
    {[nodes |-> <<>>, edges |-> <<>>],
     [nodes |-> <<1, 2>>, edges |-> <<>>],
     [nodes |-> <<1, 2>>, edges |-> <<<<1, 2>>>>]}

\* the actions createUser, updateUser, deleteUser, addFriendship,
\* removeFriendship and refreshData dispatch after the server has answered,
\* and the selection of a node
AppActions ==
    [type : {"SET_USERS"}, payload : UserLists]
    \cup [type : {"SET_GRAPH_DATA"}, payload : Graphs]
    \cup [type : {"SET_SELECTED_USER"}, payload : Shown \cup {null}]
    \cup [type : {"ADD_USER"}, payload : {u \in Shown : u.friends = <<>>}]
    \cup [type : {"UPDATE_USER"}, payload : Shown]
    \cup [type : {"DELETE_USER"}, payload : ShownIds]
    \cup [type : {"ADD_FRIENDSHIP", "REMOVE_FRIENDSHIP"},
          payload : {pl \in [userId : ShownIds, friendId : ShownIds] :
                        pl.userId # pl.friendId}]

\* the model follows lists of MaxShown users with MaxShown - 1 friends each
withinBounds(state) ==
    /\ Len(state.users) <= MaxShown
    /\ \A i \in 1..Len(state.users) : Len(state.users[i].friends) < MaxShown

\* dispatch of useReducer(appReducer, initialState)
dispatch(action) ==
    /\ withinBounds(appReducer(local.state, action))
    /\ local' = [local EXCEPT
           !.state = appReducer(@, action),
           !.step = IF @ = "saved" THEN "acted" ELSE "free",
           !.atSave = IF local.step = "saved" THEN @ ELSE initialState,
           !.afterAction = initialState]
    /\ UNCHANGED <<users, nextId, lastOp, pc>>

\* undoRedoDispatch of useReducer(undoRedoReducer, undoRedoInitialState)
undoRedoDispatch(action, step) ==
    /\ Len(local.undoRedoState.past) < MaxPast \/ action.type # "SAVE_STATE"
    /\ local' = [local EXCEPT
           !.undoRedoState = undoRedoReducer(@, action),
           !.step = step,
           !.atSave = IF step = "free" THEN initialState
                      ELSE IF step = "saved" THEN local.state ELSE @,
           !.afterAction = IF step = "undone" THEN local.state
                           ELSE IF step = "redone" THEN @ ELSE initialState]
    /\ UNCHANGED <<users, nextId, lastOp, pc>>

\* const saveState
saveState == undoRedoDispatch([type |-> "SAVE_STATE"], "saved")

\* const undo
undo ==
    undoRedoDispatch([type |-> "UNDO"],
                     IF local.step = "acted" THEN "undone" ELSE "free")

\* const redo
redo ==
    undoRedoDispatch([type |-> "REDO"],
                     IF local.step = "undone" THEN "redone" ELSE "free")

InitU ==
    /\ users = <<>>
    /\ nextId = 1
    /\ lastOp = [op |-> "none", res |-> Ok]
    /\ pc = [p \in Procs |-> "idle"]
    /\ local = [state |-> initialState, undoRedoState |-> undoRedoInitialState,
                step |-> "free", atSave |-> initialState,
                afterAction |-> initialState]

NextU ==
    \/ \E action \in AppActions : dispatch(action)
    \/ saveState
    \/ undo
    \/ redo

SpecU == InitU /\ [][NextU]_vars

\* ---------------------------------------------------------------- SpecC
userDoc(username, friends, score) ==
    [username |-> username, hobbies |-> <<"coding">>, friends |-> friends,
     popularityScore |-> score]

\* Stores the requests of Spec leave behind: one user; two users; three
\* users; two users linked to each other.
InitStores ==
    { (1 :> userDoc("alice", <<>>, 0)),
      (1 :> userDoc("alice", <<>>, 0)) @@ (2 :> userDoc("bob", <<>>, 0)),
      (1 :> userDoc("alice", <<>>, 0)) @@ (2 :> userDoc("bob", <<>>, 0))
          @@ (3 :> userDoc("carol", <<>>, 0)),
      (1 :> userDoc("alice", <<2>>, 150)) @@ (2 :> userDoc("bob", <<1>>, 150)) }

InitC ==
    /\ users \in InitStores
    /\ nextId = Cardinality(DOMAIN users) + 1
    /\ lastOp = [op |-> "none", res |-> Ok]
    /\ pc = [p \in Procs |-> "idle"]
    /\ local = [p \in Procs |-> NoLocal]

NextC ==
    \E p \in Procs :
        \/ \E n \in Usernames, h \in HobbyLists : createUser_findOne(p, n, h)
        \/ createUser_save(p)
        \/ \E id \in Ids, d \in UpdateData(Usernames) : updateUser_findOne(p, id, d)
        \/ updateUser_checkName(p)
        \/ updateUser_save(p)
        \/ updateUser_save_notFound(p)
        \/ \E id \in Ids : deleteUser_findOne(p, id)
        \/ deleteUser_canDelete(p)
        \/ deleteUser_deleteOne(p)
        \/ \E a \in Ids, b \in Ids : addFriendship_findOne(p, a, b)
        \/ addFriend_findOne(p)
        \/ \E a \in Ids, b \in Ids : removeFriendship_findOne(p, a, b)
        \/ removeFriend_findOne(p)
        \/ \E w \in {"this", "friend"} : save(p, w)
        \/ \E w \in {"this", "friend"} : save_notFound(p, w)
        \/ \E w \in {"this", "friend"} : calculatePopularityScore_find(p, w)
        \/ \E w \in {"this", "friend"} : calculatePopularityScore_save(p, w)
        \/ \E w \in {"this", "friend"} : calculatePopularityScore_save_notFound(p, w)
        \/ getUserStats_countDocuments(p)
        \/ getUserStats_find(p)
        \/ getUserStats_findTop(p)

SpecC == InitC /\ [][NextC]_vars

\* ---------------------------------------------------------------- properties
\* friends and hobbies of a stored user, as sets
friendSet(store, u) == Range(store[u].friends)
hobbySet(store, u) == Range(store[u].hobbies)

\* |friends| + 0.5 x (sum over friends f of |hobbies(u) /\ hobbies(f)|), in hundredths
ScoreFormula(store, u) ==
    100 * Cardinality(friendSet(store, u))
    + 50 * Cardinality({fh \in friendSet(store, u) \X Hobbies :
                           /\ fh[1] \in DOMAIN store
                           /\ fh[2] \in hobbySet(store, u)
                           /\ fh[2] \in hobbySet(store, fh[1])})

linked(a, b) == includes(users[a].friends, b) \/ includes(users[b].friends, a)

\* C1: after any sequence of completed requests, b is a friend of a exactly
\* when a is a friend of b.
Symmetry ==
    \A a \in DOMAIN users, b \in DOMAIN users :
        includes(users[a].friends, b) <=> includes(users[b].friends, a)

SymmetryWitness ==
    /\ lastOp = [op |-> "unlink", res |-> Ok]
    /\ \E a \in DOMAIN users, b \in DOMAIN users :
           /\ a # b
           /\ includes(users[a].friends, b)
           /\ includes(users[b].friends, a)
           /\ Len(users[b].friends) = 1
           /\ \E c \in DOMAIN users : c \notin {a, b} /\ users[c].friends = <<>>

\* C2: after every completed request, every stored popularityScore equals the
\* score formula on the stored friends and hobbies.
StoredScoreInvariant ==
    \A u \in DOMAIN users : users[u].popularityScore = ScoreFormula(users, u)

\* C3: after every completed request, a user without friends has stored
\* popularityScore 0.
ZeroFriendScore ==
    \A u \in DOMAIN users :
        users[u].friends = <<>> => users[u].popularityScore = 0

\* C4: a successful link(a,b) leaves the stored scores of a and of b equal to
\* the score formula on the friends sets after the link.
LinkRecomputesBoth ==
    [][lastOp' = [op |-> "link", res |-> Ok] =>
          \A a \in Ids, b \in Ids :
              addFriendship(a, b) =>
                  /\ includes(users'[a].friends, b)
                  /\ users'[a].popularityScore = ScoreFormula(users', a)
                  /\ users'[b].popularityScore = ScoreFormula(users', b)]_vars

\* a user linked to two friends, sharing one hobby with each: score 3.0
LinkRecomputesBothWitness ==
    /\ lastOp = [op |-> "link", res |-> Ok]
    /\ \E a \in DOMAIN users :
           /\ Len(users[a].friends) = 2
           /\ users[a].popularityScore = 300
           /\ \A f \in friendSet(users, a) : users[f].popularityScore = 150

\* C5: no user is ever its own friend, and link(a,a) on an existing user
\* fails with SelfLink and changes nothing.
Irreflexive == \A u \in DOMAIN users : ~includes(users[u].friends, u)

SelfLinkRejected ==
    lastOp'.op = "link" =>
        \A a \in DOMAIN users :
            addFriendship(a, a) => (lastOp'.res = SelfLink /\ users' = users)

Irreflexivity == []Irreflexive /\ [][SelfLinkRejected]_vars

IrreflexivityWitness ==
    /\ lastOp = [op |-> "link", res |-> SelfLink]
    /\ \E a \in DOMAIN users : users[a].friends # <<>>

\* C6: link on a linked pair fails with AlreadyLinked in either argument
\* order, unlink on an unlinked pair fails with NotLinked, and both leave
\* the store as it was.
DuplicateEdgeGuard ==
    [][lastOp'.op \in {"link", "unlink"} =>
          \A a \in DOMAIN users, b \in DOMAIN users :
              /\ (linked(a, b) /\ addFriendship(a, b)) =>
                     (lastOp'.res = AlreadyLinked /\ users' = users)
              /\ (~linked(a, b) /\ removeFriendship(a, b)) =>
                     (lastOp'.res = NotLinked /\ users' = users)]_vars

DuplicateEdgeGuardWitness ==
    /\ lastOp = [op |-> "link", res |-> AlreadyLinked]
    /\ \E a \in DOMAIN users, b \in DOMAIN users : a # b /\ linked(a, b)

\* C7: delete of a user with friends fails with HasFriends and changes
\* nothing; delete of a user without friends removes exactly that user.
DeletionGuard ==
    [][lastOp'.op = "delete" =>
          \A id \in DOMAIN users :
              deleteUser(id) =>
                  IF users[id].friends # <<>>
                  THEN lastOp'.res = HasFriends /\ users' = users
                  ELSE /\ lastOp'.res = Ok
                       /\ DOMAIN users' = DOMAIN users \ {id}
                       /\ \A u \in DOMAIN users' : users'[u] = users[u]]_vars

\* a delete succeeded on a user whose only friendship had been unlinked:
\* the former friend is still there, friendless
DeletionGuardWitness ==
    /\ lastOp = [op |-> "delete", res |-> Ok]
    /\ nextId = 3
    /\ \E u \in DOMAIN users :
           users[u].friends = <<>> /\ users[u].popularityScore > 0

\* a link or unlink of p that passed its checks and has not replied yet
EdgeRequest(p) ==
    /\ local[p].op \in {"link", "unlink"}
    /\ pc[p] \in {"save", "calc"}

\* C8: while a link or unlink is in progress, no read finds one of its two
\* users in the other's friends without the reverse.
AtomicEdgeToReaders ==
    \A p \in Procs :
        EdgeRequest(p) =>
            (includes(users[local[p].a].friends, local[p].b)
                 <=> includes(users[local[p].b].friends, local[p].a))

\* the edge change of p's link or unlink is in the store on both sides
EdgeChangeVisible(p) ==
    /\ local[p].op \in {"link", "unlink"}
    /\ pc[p] \in {"save", "calc", "done"}
    /\ local[p].res \in {"none", Ok}
    /\ local[p].unsaved = {}
    /\ LET a == local[p].a
           b == local[p].b
       IN  IF local[p].op = "link"
           THEN includes(users[a].friends, b) /\ includes(users[b].friends, a)
           ELSE ~includes(users[a].friends, b) /\ ~includes(users[b].friends, a)

\* C9: no read finds the edge change of a link or unlink in the store while
\* the stored score of either endpoint still dates from before the change.
NoStaleScoreAfterEdgeChange ==
    \A p \in Procs :
        EdgeChangeVisible(p) => local[p].stored = {"this", "friend"}

\* C10: overlapping creates and renames never leave two users with the same
\* username in the store.
UniqueUsernamesUnderOverlap ==
    \A u \in DOMAIN users, v \in DOMAIN users :
        u # v => users[u].username # users[v].username

\* the users holding a username
holders(name) == {u \in DOMAIN users : users[u].username = name}

UniqueUsernames == \A n \in Usernames : Cardinality(holders(n)) <= 1

\* the bodies of an update that carries the username n
renames(n) == {[username |-> n]} \cup [username : {n}, hobbies : HobbyLists]

DuplicateNameRejected ==
    /\ lastOp'.res = DuplicateName => users' = users
    /\ (lastOp'.op = "create" /\ lastOp'.res # DuplicateName) =>
           \A n \in NamesInUse, h \in HobbyLists : ~createUser(n, h)
    /\ (lastOp'.op = "update" /\ lastOp'.res # DuplicateName) =>
           \A id \in DOMAIN users :
               \A n \in NamesInUse \ {users[id].username} :
                   \A d \in renames(n) : ~updateUser(id, d)

\* C11: with requests one at a time, a create with a username somebody holds
\* and an update to a username another user holds fail with DuplicateName and
\* leave the store as it was, and no two stored users ever share a username.
SequentialUsernameUniqueness ==
    []UniqueUsernames /\ [][DuplicateNameRejected]_vars

\* a rename to a username another user holds was refused
SequentialUsernameUniquenessWitness ==
    /\ lastOp = [op |-> "update", res |-> DuplicateName]
    /\ nextId = 3
    /\ {users[u].username : u \in DOMAIN users} = {"bob", "carol"}
    /\ 1 \in DOMAIN users /\ users[1].username = "carol"

\* friends, hobbies and popularityScore of u are stored as before the step
sameRecord(u) ==
    u \in DOMAIN users =>
        /\ u \in DOMAIN users'
        /\ users'[u].friends = users[u].friends
        /\ users'[u].hobbies = users[u].hobbies
        /\ users'[u].popularityScore = users[u].popularityScore

\* C12: a link(a,b) or unlink(a,b) that fails, for a failed check or for a
\* save the store rejected, leaves the stored friends, hobbies and
\* popularityScore of a and of b as they were before the call.
FailedEdgeRequestChangesNothing ==
    [][(lastOp'.op \in {"link", "unlink"} /\ lastOp'.res # Ok) =>
          \A a \in Ids, b \in Ids :
              (\/ addFriendship(a, b)
               \/ removeFriendship(a, b)
               \/ \E w \in Persisted : addFriendship_saveRejected(a, b, w)
               \/ \E w \in Persisted : removeFriendship_saveRejected(a, b, w))
                  => (sameRecord(a) /\ sameRecord(b))]_vars

\* the bodies of an update that carries the hobbies array h
\* C13: a successful update of the hobbies of a user who has a friend leaves
\* that user's stored score equal to |friends| + 0.5 x the hobbies shared
\* with each friend, counted with the new hobbies.
HobbyUpdateRecomputes ==
    [][lastOp' = [op |-> "update", res |-> Ok] =>
          \A id \in DOMAIN users :
              users[id].friends # <<>> =>
                  IF users'[id].popularityScore = ScoreFormula(users', id)
                  THEN \A h \in HobbyLists :
                           \/ hobbySet(users', id) = Range(h)
                           \/ ~updateUser(id, [hobbies |-> h])
                  ELSE \A h \in HobbyLists : ~updateUser(id, [hobbies |-> h])]_vars

\* a user without hobbies got a friend (1.0 each), then the hobby of that
\* friend: the user's score is 1.5, the friend's stored score is still 1.0
HobbyUpdateRecomputesWitness ==
    /\ lastOp = [op |-> "update", res |-> Ok]
    /\ \E u \in DOMAIN users, f \in DOMAIN users :
           /\ users[u].friends = <<f>>
           /\ users[f].friends = <<u>>
           /\ users[u].hobbies = <<"coding">>
           /\ users[f].hobbies = <<"coding">>
           /\ users[u].popularityScore = 150
           /\ users[f].popularityScore = 100

\* every user but id has friends, hobbies and popularityScore as before
othersKept(id) == \A u \in DOMAIN users \ {id} : sameRecord(u)

\* every stored popularityScore is as before
scoresKept ==
    \A u \in DOMAIN users :
        u \in DOMAIN users' /\ users'[u].popularityScore = users[u].popularityScore

\* the username a body of this step can carry for user id: the one id holds
\* after the step
storedName(id) == {users'[id].username} \cap NamesInUse

\* the bodies of an update that carries no hobbies
plainUpdates(names) == [username : names] \cup [age : {30}]

\* C14: update(id, ..) and removeHobby(id, ..) leave the friends, hobbies and
\* stored score of every user other than id as they were, and an update
\* without hobbies leaves every stored score as it was.  (Only a request
\* that succeeds changes the store at all.)
ScoreTriggerPoints ==
    [][(lastOp'.op \in {"update", "removeHobby"} /\ users' # users) =>
          /\ lastOp'.res = Ok
          /\ \A id \in DOMAIN users :
                 \/ othersKept(id)
                 \/ IF lastOp'.op = "update"
                    THEN \A d \in UpdateData(storedName(id)) : ~updateUser(id, d)
                    ELSE \A h \in Hobbies : ~removeHobby(id, h)
          /\ \/ scoresKept
             \/ lastOp'.op = "removeHobby"
             \/ \A id \in DOMAIN users :
                    \A d \in plainUpdates(storedName(id)) : ~updateUser(id, d)]_vars

\* a linked user lost its hobby through removeHobby and is at 1.0; the
\* friend's stored score is the 1.5 it had before
ScoreTriggerPointsWitness ==
    /\ lastOp = [op |-> "removeHobby", res |-> Ok]
    /\ \E u \in DOMAIN users, f \in DOMAIN users :
           /\ users[u].friends = <<f>>
           /\ users[f].friends = <<u>>
           /\ users[u].hobbies = <<>>
           /\ users[u].popularityScore = 100
           /\ users[f].popularityScore = 150

\* the unordered pairs {a, b} with b stored in a.friends
friendPairSet(store) ==
    {{ab[1], ab[2]} : ab \in {xy \in (DOMAIN store) \X (DOMAIN store) :
                                  includes(store[xy[1]].friends, xy[2])}}

\* C15: on a store with symmetric friends arrays getGraphData returns one
\* node per user, carrying the user's id, and one edge per unordered pair of
\* friends, never an edge together with its reverse.
ProjectionDedup ==
    Symmetry =>
        LET graph == getGraphData(users)
            nodes == graph.nodes
            edges == graph.edges
        IN  /\ Len(nodes) = Cardinality(DOMAIN users)
            /\ {nodes[i].id : i \in 1..Len(nodes)} = DOMAIN users
            /\ Len(edges) = Cardinality(friendPairSet(users))
            /\ {{edges[i].source, edges[i].target} : i \in 1..Len(edges)}
                   = friendPairSet(users)
            /\ \A i \in 1..Len(edges), j \in 1..Len(edges) :
                   ~(/\ edges[i].source = edges[j].target
                     /\ edges[i].target = edges[j].source)

\* the graph was read on three users who are all friends of each other
ProjectionDedupWitness ==
    /\ lastOp = [op |-> "graph", res |-> Ok]
    /\ Cardinality(DOMAIN users) = 3
    /\ \A u \in DOMAIN users : Len(users[u].friends) = 2
    /\ Len(getGraphData(users).edges) = 3

\* C16: after any sequence of completed requests totalFriendships of the
\* stats is a whole number, the number of unordered pairs of friends, and
\* the number of edges getGraphData returns on the same store.
AggregateIntegrity ==
    LET stats == getUserStats(users, users, users)
    IN  /\ stats.totalFriendships % 100 = 0
        /\ stats.totalFriendships = 100 * Cardinality(friendPairSet(users))
        /\ stats.totalFriendships = 100 * Len(getGraphData(users).edges)

\* the stats were read on three users with two friendships, after an unlink
AggregateIntegrityWitness ==
    /\ lastOp = [op |-> "stats", res |-> Ok]
    /\ Cardinality(DOMAIN users) = 3
    /\ getUserStats(users, users, users).totalFriendships = 200
    /\ \E u \in DOMAIN users : users[u].popularityScore = 300

\* C17: getGraphData types a node HighScoreNode exactly when the stored score
\* of its user is above 5, and LowScoreNode otherwise: a score of 5 is low.
NodeCategory ==
    LET nodes == getGraphData(users).nodes
    IN  \A i \in 1..Len(nodes) :
            LET score == users[nodes[i].id].popularityScore
            IN  /\ nodes[i].type \in {"HighScoreNode", "LowScoreNode"}
                /\ nodes[i].type = "HighScoreNode" <=> score > 500
                /\ score = 500 => nodes[i].type = "LowScoreNode"

\* the graph was read on users with scores 4.5, 5 and 5.5
NodeCategoryWitness ==
    /\ lastOp = [op |-> "graph", res |-> Ok]
    /\ {users[u].popularityScore : u \in DOMAIN users} = {450, 500, 550}
    /\ LET nodes == getGraphData(users).nodes
       IN  {nodes[i].type : i \in 1..Len(nodes)} = {"HighScoreNode", "LowScoreNode"}

\* C18: a successful unlink(a,b) of two linked users takes b out of
\* a.friends and a out of b.friends, keeps every other friend of a and of b,
\* and changes no field of any other user.
UnlinkPostcondition ==
    [][lastOp' = [op |-> "unlink", res |-> Ok] =>
          \A a \in DOMAIN users, b \in DOMAIN users :
              (linked(a, b) /\ removeFriendship(a, b)) =>
                  /\ DOMAIN users' = DOMAIN users
                  /\ ~includes(users'[a].friends, b)
                  /\ ~includes(users'[b].friends, a)
                  /\ friendSet(users', a) = friendSet(users, a) \ {b}
                  /\ friendSet(users', b) = friendSet(users, b) \ {a}
                  /\ \A u \in DOMAIN users \ {a, b} : users'[u] = users[u]]_vars

\* a user with two friends was unlinked from one of them: it keeps the
\* other, and the one it lost has no friend left
UnlinkPostconditionWitness ==
    /\ lastOp = [op |-> "unlink", res |-> Ok]
    /\ \E a \in DOMAIN users, b \in DOMAIN users, c \in DOMAIN users :
           /\ users[a].friends = <<c>>
           /\ users[c].friends = <<a>>
           /\ users[a].popularityScore = 150
           /\ users[b].friends = <<>>
           /\ users[b].popularityScore = 150

\* C19: a successful create stores one more user, under an id no stored user
\* has or names as a friend, with no friends and the score 0, and leaves the
\* friends, hobbies and stored score of every other user as they were.
Creation ==
    [][lastOp' = [op |-> "create", res |-> Ok] =>
          \A n \in NamesInUse \cup FirstUnused, h \in HobbyLists :
              createUser(n, h) =>
                  \E id \in Ids :
                      /\ id \notin DOMAIN users
                      /\ \A u \in DOMAIN users : ~includes(users[u].friends, id)
                      /\ DOMAIN users' = DOMAIN users \cup {id}
                      /\ users'[id].username = n
                      /\ users'[id].friends = <<>>
                      /\ users'[id].popularityScore = 0
                      /\ \A u \in DOMAIN users : sameRecord(u)]_vars

\* the last id was handed out after a delete; the other stored user keeps
\* its friends, hobbies and stored score of 1.5
CreationWitness ==
    /\ lastOp = [op |-> "create", res |-> Ok]
    /\ nextId = MaxUsers + 1
    /\ Cardinality(DOMAIN users) = 2
    /\ \E u \in DOMAIN users :
           /\ users[u].friends = <<>>
           /\ users[u].popularityScore = 0
           /\ \E v \in DOMAIN users : v # u /\ users[v].popularityScore = 150

\* C20: the values of one stats result come from one state of the store:
\* totalUsers is the number of users over which totalFriendships and the
\* average were computed, and every topUsers entry is a user of that state
\* with that stored score, whatever runs beside the stats request.
SnapshotReads ==
    \A p \in Procs :
        (local[p].op = "stats" /\ pc[p] = "done") =>
            LET stats == local[p].stats
                found == local[p].found
            IN  /\ stats.totalUsers = Cardinality(DOMAIN found)
                /\ \A i \in 1..Len(stats.topUsers) :
                       /\ stats.topUsers[i].id \in DOMAIN found
                       /\ stats.topUsers[i].popularityScore =
                              found[stats.topUsers[i].id].popularityScore

\* C21: after every successful create, update or removeHobby no stored
\* hobbies array holds an entry twice or a blank entry, whatever array the
\* caller passed.
HobbiesAreASet ==
    \A u \in DOMAIN users :
        LET hobbies == users[u].hobbies
        IN  /\ \A i \in 1..Len(hobbies), j \in 1..Len(hobbies) :
                   i # j => hobbies[i] # hobbies[j]
            /\ \A i \in 1..Len(hobbies) : hobbies[i] # ""

\* a user created with one hobby holds two after an update, another user
\* lost its only hobby
HobbiesAreASetWitness ==
    /\ lastOp = [op |-> "update", res |-> Ok]
    /\ \E u \in DOMAIN users, v \in DOMAIN users :
           /\ users[u].hobbies = <<"gaming", "coding">>
           /\ users[v].hobbies = <<>>

\* C22: getAllUsers, getUserById, searchUsers, getAllHobbies, getUserStats
\* and getGraphData leave the store exactly as it was.
ReadPurity ==
    [][lastOp'.op \in {"getAllUsers", "getUserById", "searchUsers",
                       "getAllHobbies", "stats", "graph"} =>
          ((\/ UserService_getAllUsers
            \/ \E id \in Ids : UserService_getUserById(id)
            \/ UserService_searchUsers
            \/ UserService_getAllHobbies
            \/ UserService_getUserStats
            \/ UserService_getGraphData) => users' = users)]_vars

\* the hobbies were read while a user without friends has a stored score
ReadPurityWitness ==
    /\ lastOp = [op |-> "getAllHobbies", res |-> Ok]
    /\ \E u \in DOMAIN users :
           users[u].friends = <<>> /\ users[u].popularityScore = 150

\* C23: whatever delete and link requests overlap, every id in a stored
\* friends array is the id of a stored user.
ReferentialIntegrity ==
    \A u \in DOMAIN users :
        \A i \in 1..Len(users[u].friends) : users[u].friends[i] \in DOMAIN users

\* both requests are successful links from the same user a to two different
\* users, each started while a had no friends
bothLinked(a, b, c) ==
    /\ b # c
    /\ \A p \in Procs : pc[p] = "done" /\ local[p].op = "link" /\ local[p].res = Ok
    /\ \A p \in Procs : local[p].a = a /\ local[p].this.friends = <<local[p].b>>
    /\ {local[p].b : p \in Procs} = {b, c}

\* C24: when link(a,b) and link(a,c) overlap and both succeed, a holds both
\* b and c, b and c hold a, and the stored score of a is the formula on the
\* final store.
NoLostUpdate ==
    \A a \in Ids, b \in Ids, c \in Ids :
        bothLinked(a, b, c) =>
            /\ {b, c} \subseteq friendSet(users, a)
            /\ a \in friendSet(users, b)
            /\ a \in friendSet(users, c)
            /\ users[a].popularityScore = ScoreFormula(users, a)

\* both requests are successful links of the same unordered pair
samePairLinked ==
    /\ \A p \in Procs : pc[p] = "done" /\ local[p].op = "link" /\ local[p].res = Ok
    /\ \E p \in Procs, q \in Procs :
           /\ p # q
           /\ {local[p].a, local[p].b} = {local[q].a, local[q].b}

\* C25: of two overlapping link requests for the same unordered pair at most
\* one succeeds, and no stored friends array holds an id twice.
NoDuplicateEdge ==
    /\ ~samePairLinked
    /\ \A u \in DOMAIN users :
           \A i \in 1..Len(users[u].friends), j \in 1..Len(users[u].friends) :
               i # j => users[u].friends[i] # users[u].friends[j]

\* C26: from a store in which a and b are not linked and every stored score
\* equals the formula, a successful link(a,b) followed at once by a
\* successful unlink(a,b) gives a and b the friends and the stored scores
\* they had before the link.
LinkUnlinkRoundTrip ==
    LET a == local[Client].a
        b == local[Client].b
        before == local[Client].before
    IN  (/\ pc[Client] = "done"
         /\ local[Client].op = "unlink"
         /\ local[Client].res = Ok
         /\ \A u \in DOMAIN before :
                before[u].popularityScore = ScoreFormula(before, u))
        => \A u \in {a, b} :
               /\ friendSet(users, u) = friendSet(before, u)
               /\ users[u].popularityScore = before[u].popularityScore

\* the outcomes link(a,b) may report when its checks run in the order a = b,
\* existence of a and of b, already linked
linkOutcomes(a, b) ==
    IF a = b THEN {SelfLink}
    ELSE IF a \notin DOMAIN users \/ b \notin DOMAIN users
    THEN {UserNotFound, FriendNotFound}
    ELSE IF includes(users[a].friends, b) THEN {AlreadyLinked}
    ELSE {Ok}

\* C27: link(a,b) reports SelfLink when a = b, whether or not a exists, then
\* NotFound when a or b is missing, then AlreadyLinked when b is a friend of a.
LinkCheckOrder ==
    [][\A a \in Ids, b \in Ids :
          addFriendship(a, b) => lastOp'.res \in linkOutcomes(a, b)]_vars

\* C28: unlink(a,b) for a stored user a and an id b that no user has reports
\* NotFound for b and leaves the store as it was.
UnlinkMissingFriend ==
    [][\A a \in DOMAIN users, b \in Ids \ DOMAIN users :
          removeFriendship(a, b) =>
              lastOp'.res = FriendNotFound /\ users' = users]_vars

\* C29: removeHobby(u,h) reports 'Hobby not found' and leaves the store as it
\* was when h is not a hobby of u; otherwise it removes h and nothing else
\* from the hobbies of u, keeps the friends of u, and stores for u the
\* formula value on the reduced hobbies.
RemoveHobbyPostcondition ==
    [][\A u \in DOMAIN users, h \in Hobbies :
          removeHobby(u, h) =>
              IF ~includes(users[u].hobbies, h)
              THEN lastOp'.res = HobbyNotFound /\ users' = users
              ELSE /\ lastOp'.res = Ok
                   /\ hobbySet(users', u) = hobbySet(users, u) \ {h}
                   /\ users'[u].friends = users[u].friends
                   /\ users'[u].popularityScore = ScoreFormula(users', u)]_vars

\* C30: after saveState() and an action, undo() gives state.users and
\* state.graphData the values they had at the saveState(), and a redo() that
\* follows gives them the values they had after the action.
UndoReversesActions ==
    /\ local.step = "undone" =>
           /\ local.state.users = local.atSave.users
           /\ local.state.graphData = local.atSave.graphData
    /\ local.step = "redone" =>
           /\ local.state.users = local.afterAction.users
           /\ local.state.graphData = local.afterAction.graphData

====
